---- MODULE Spec2Model ----
(***************************************************************************)
(* Model of `meanwhile` (src/src/main.rs): run a primary command while a   *)
(* list of declared background tasks executes, then interrupt, kill and    *)
(* collect the background tasks and write the captured streams to files.   *)
(*                                                                         *)
(* The control flow of `main` is one sequential thread; every call into    *)
(* the operating system (spawn, sleep, signal, kill, wait, create_dir,     *)
(* write) is one step whose outcome the environment chooses.  Background   *)
(* processes are OS processes that can exit on their own at any moment.    *)
(***************************************************************************)
EXTENDS Integers, Sequences, FiniteSets, TLC

VARIABLES
    pc,             \* position of main's control flow
    meanwhile_file, \* decoded [[meanwhile]] entries of the declaration file
    args,           \* the parsed command line (the fields main reads)
    children,       \* Vec of (child, stdout_suffix, stderr_suffix), main.rs:83
    handle,         \* per background task: ownership of its process::Child
    proc,           \* per background task: state of the OS process
    interrupted,    \* per background task: outcome of the SIGINT attempt
    killed,         \* per background task: outcome of child.kill()
    waited,         \* per background task: outcome of wait_with_output()
    output,         \* process::Output of the primary command (Option)
    idx,            \* position of the running loop / of the `outputs` iterator
    cur,            \* item the write loop is processing (Option)
    outdir_created, \* fs::create_dir_all(&args.outdir) has succeeded
    name,           \* the resolved shared name prefix (Option)
    files,          \* the output directory: path -> bytes
    writes,         \* every fs::write attempt, in order
    log,            \* error-level log lines: [msg, pid]
    result          \* what main returned: "running", "Ok" or "Err"

vars == <<pc, meanwhile_file, args, children, handle, proc, interrupted,
          killed, waited, output, idx, cur, outdir_created, name, files,
          writes, log, result>>

----------------------------------------------------------------------------
(* Bounds *)

MaxTasks == 2       \* most [[meanwhile]] entries in a declaration file
MaxFaults == 1      \* most non-fatal failures the environment injects
MaxWrites == 3      \* most write_or_log calls when it is exercised on its own

----------------------------------------------------------------------------
(* Option<T> is a sequence of length at most one. *)

None == <<>>
Some(x) == <<x>>
IsSome(o) == Len(o) = 1
Unwrap(o) == o[1]

\* Option<String>::unwrap_or_default(): the empty string when absent
UnwrapOrDefault(o) == IF IsSome(o) THEN Unwrap(o) ELSE <<>>

\* Strings are sequences of characters.
Suffixes == {<<"o">>, <<"e">>}
Names == {<<"n">>}

\* (stdout_suffix, stderr_suffix) pairs a task can be declared with
SuffixPairs == {<<None, Some(<<"e">>)>>,
                <<Some(<<"o">>), Some(<<"o">>)>>}

\* struct Meanwhile, without cmd/args (whether they spawn is the
\* environment's choice)
Meanwhile == {[stdout_suffix |-> p[1], stderr_suffix |-> p[2]] : p \in SuffixPairs}

\* struct Args, the fields the orchestration reads
Args == {[name |-> n, interactive_name |-> b,
          stdout_suffix |-> p[1], stderr_suffix |-> p[2]] :
            n \in {None} \cup {Some(x) : x \in Names},
            b \in BOOLEAN,
            p \in SuffixPairs}

Tasks == 1..MaxTasks
MainPid == 0

\* what a process wrote to a stream, identified by its origin
Captured(pid, stream) == <<pid, stream>>

\* process::Output
Output(pid, status) ==
    [pid |-> pid, status |-> status,
     stdout |-> Captured(pid, "stdout"), stderr |-> Captured(pid, "stderr")]

SeqsUpTo(S, n) == UNION {[1..k -> S] : k \in 0..n}

----------------------------------------------------------------------------
(* Non-fatal failures injected so far *)

NumFaults ==
      Cardinality({i \in Tasks : interrupted[i] = "Err"})
    + Cardinality({i \in Tasks : killed[i] = "Err"})
    + Cardinality({i \in Tasks : waited[i] = "Err"})
    + Cardinality({k \in 1..Len(writes) : writes[k].res # "Ok"})

MayFail == NumFaults < MaxFaults

----------------------------------------------------------------------------
Init ==
    /\ pc = "read_meanwhile_file"
    /\ meanwhile_file \in SeqsUpTo(Meanwhile, MaxTasks)
    /\ args \in Args
    /\ children = <<>>
    /\ handle = [i \in Tasks |-> "none"]
    /\ proc = [i \in Tasks |-> "none"]
    /\ interrupted = [i \in Tasks |-> "none"]
    /\ killed = [i \in Tasks |-> "none"]
    /\ waited = [i \in Tasks |-> "none"]
    /\ output = None
    /\ idx = 1
    /\ cur = None
    /\ outdir_created = FALSE
    /\ name = None
    /\ files = <<>>
    /\ writes = <<>>
    /\ log = {}
    /\ result = "running"

----------------------------------------------------------------------------
(* `?` on an Err: main returns the error.  Every local is dropped; dropping *)
(* a process::Child neither kills nor waits for the process.                *)

DropAll(h) == [i \in Tasks |-> IF h[i] = "owned" THEN "dropped" ELSE h[i]]

\* one error-level log line
Line(msg, pid) == [msg |-> msg, pid |-> pid]

Bail(context) ==
    /\ pc' = "exit"
    /\ result' = "Err"
    /\ log' = log \cup {Line(context, MainPid)}
    /\ handle' = DropAll(handle)

----------------------------------------------------------------------------
(* main.rs:67-81  read and decode the declaration file *)
ReadMeanwhileFile ==
    /\ pc = "read_meanwhile_file"
    /\ \/ /\ pc' = IF Len(meanwhile_file) = 0 THEN "sleep_after_spawn" ELSE "spawn"
          /\ UNCHANGED <<handle, log, result>>
       \/ Bail("couldn't open meanwhile-file")
       \/ Bail("couldn't deserialize meanwhile-file")
    /\ UNCHANGED <<meanwhile_file, args, children, proc, interrupted, killed,
                   waited, output, idx, cur, outdir_created, name, files, writes>>

(* main.rs:83-107  spawn the next declared background task; collect() into *)
(* a Result stops at the first Err and `?` returns it.                     *)
SpawnOk(i) ==
    /\ children' = Append(children,
                          [pid |-> i,
                           stdout_suffix |-> meanwhile_file[i].stdout_suffix,
                           stderr_suffix |-> meanwhile_file[i].stderr_suffix])
    /\ handle' = [handle EXCEPT ![i] = "owned"]
    /\ proc' = [proc EXCEPT ![i] = "running"]
    /\ pc' = IF i = Len(meanwhile_file) THEN "sleep_after_spawn" ELSE "spawn"
    /\ UNCHANGED <<log, result>>

\* variant: a task that cannot be spawned is skipped and the run goes on
SpawnErrSkips(i) ==
    /\ log' = log \cup {Line("couldn't spawn background task", MainPid)}
    /\ pc' = "sleep_after_spawn"
    /\ UNCHANGED <<children, proc, handle, result>>

SpawnErr(i) ==
    /\ Bail("couldn't spawn background task")
    /\ UNCHANGED <<children, proc>>

Spawn ==
    /\ pc = "spawn"
    /\ LET i == Len(children) + 1 IN
         \/ SpawnOk(i)
         \/ SpawnErr(i)
    /\ UNCHANGED <<meanwhile_file, args, interrupted, killed, waited, output,
                   idx, cur, outdir_created, name, files, writes>>

\* variant: the interrupt loop placed before the primary command
SleepThenInterrupt ==
    /\ pc = "sleep_after_spawn"
    /\ pc' = "interrupt"
    /\ UNCHANGED <<meanwhile_file, args, children, handle, proc, interrupted,
                   killed, waited, output, idx, cur, outdir_created, name,
                   files, writes, log, result>>

(* main.rs:113-117  thread::sleep(sleep_after_spawn) *)
SleepAfterSpawn ==
    /\ pc = "sleep_after_spawn"
    /\ pc' = "run_main"
    /\ UNCHANGED <<meanwhile_file, args, children, handle, proc, interrupted,
                   killed, waited, output, idx, cur, outdir_created, name,
                   files, writes, log, result>>

\* variant: the interrupt loop starts at the second child
RunMainSkipsFirstChild ==
    /\ pc = "run_main"
    /\ \/ /\ \E status \in {0, 1} : output' = Some(Output(MainPid, status))
          /\ pc' = "interrupt"
          /\ idx' = 2
          /\ UNCHANGED <<handle, log, result>>
       \/ /\ Bail("couldn't execute main task")
          /\ UNCHANGED <<output, idx>>
    /\ UNCHANGED <<meanwhile_file, args, children, proc, interrupted, killed,
                   waited, cur, outdir_created, name, files, writes>>

\* variant: the primary command's exit status is checked
RunMainChecksStatus ==
    /\ pc = "run_main"
    /\ \/ /\ output' = Some(Output(MainPid, 0))
          /\ pc' = "interrupt"
          /\ idx' = 1
          /\ UNCHANGED <<handle, log, result>>
       \/ /\ output' = Some(Output(MainPid, 1))
          /\ Bail("couldn't execute main task")
          /\ UNCHANGED idx
       \/ /\ Bail("couldn't execute main task")
          /\ UNCHANGED <<output, idx>>
    /\ UNCHANGED <<meanwhile_file, args, children, proc, interrupted, killed,
                   waited, cur, outdir_created, name, files, writes>>

(* main.rs:120-126  Command::output(): spawn the primary command and block *)
(* until it has exited; an exit status of any value is an Ok.              *)
RunMain ==
    /\ pc = "run_main"
    /\ \/ /\ \E status \in {0, 1} : output' = Some(Output(MainPid, status))
          /\ pc' = "interrupt"
          /\ idx' = 1
          /\ UNCHANGED <<handle, log, result>>
       \/ /\ Bail("couldn't execute main task")
          /\ UNCHANGED <<output, idx>>
    /\ UNCHANGED <<meanwhile_file, args, children, proc, interrupted, killed,
                   waited, cur, outdir_created, name, files, writes>>

\* variant: the first failed interrupt ends the loop
InterruptOrBreak(i, res) ==
    /\ interrupted' = [interrupted EXCEPT ![i] = res]
    /\ log' = IF res = "Err"
                THEN log \cup {Line("couldn't interrupt child", i)}
                ELSE log
    /\ idx' = IF res = "Err" THEN Len(children) + 1 ELSE idx + 1
    /\ pc' = "interrupt"
    /\ UNCHANGED <<handle, result>>

(* main.rs:128-136  for (child, _, _) in children.iter(): send SIGINT to   *)
(* the child's pid; an Err is logged and the loop goes on.                 *)
InterruptResult(i, res) ==
    /\ interrupted' = [interrupted EXCEPT ![i] = res]
    /\ log' = IF res = "Err"
                THEN log \cup {Line("couldn't interrupt child", i)}
                ELSE log
    /\ idx' = idx + 1
    /\ pc' = "interrupt"
    /\ UNCHANGED <<handle, result>>

Interrupt ==
    /\ pc = "interrupt"
    /\ idx <= Len(children)
    /\ \/ InterruptResult(children[idx].pid, "Ok")
       \/ MayFail /\ InterruptResult(children[idx].pid, "Err")
    /\ UNCHANGED <<meanwhile_file, args, children, proc, killed, waited,
                   output, cur, outdir_created, name, files, writes>>

\* variant: the grace sleep and what follows sit inside the interrupt loop
SleepInsideInterruptLoop ==
    /\ pc = "interrupt"
    /\ idx > 1 \/ Len(children) = 0
    /\ pc' = "create_dir_all"
    /\ UNCHANGED <<meanwhile_file, args, children, handle, proc, interrupted,
                   killed, waited, output, idx, cur, outdir_created, name,
                   files, writes, log, result>>

(* main.rs:138-139  thread::sleep(100ms), entered when the loop is done *)
SleepAfterInterrupt ==
    /\ pc = "interrupt"
    /\ idx > Len(children)
    /\ pc' = "create_dir_all"
    /\ UNCHANGED <<meanwhile_file, args, children, handle, proc, interrupted,
                   killed, waited, output, idx, cur, outdir_created, name,
                   files, writes, log, result>>

\* variant: a failed create_dir_all is logged and the run goes on
CreateDirAllOrLog ==
    /\ pc = "create_dir_all"
    /\ \/ /\ outdir_created' = TRUE
          /\ UNCHANGED log
       \/ /\ log' = log \cup {Line("couldn't create outdir", MainPid)}
          /\ UNCHANGED outdir_created
    /\ pc' = "select_name"
    /\ UNCHANGED <<meanwhile_file, args, children, handle, proc, interrupted,
                   killed, waited, output, idx, cur, name, files, writes,
                   result>>

(* main.rs:164-165  fs::create_dir_all(&args.outdir)? *)
CreateDirAll ==
    /\ pc = "create_dir_all"
    /\ \/ /\ outdir_created' = TRUE
          /\ pc' = "select_name"
          /\ UNCHANGED <<handle, log, result>>
       \/ /\ Bail("couldn't create outdir")
          /\ UNCHANGED outdir_created
    /\ UNCHANGED <<meanwhile_file, args, children, proc, interrupted, killed,
                   waited, output, idx, cur, name, files, writes>>

(* main.rs:166-173  the shared name: the --name argument, or what the user *)
(* types at the prompt (pre-filled with --name), whose failure is fatal.   *)
(* main.rs:175-176  the write loop then takes its first item, the primary  *)
(* task's output with the top-level suffixes.                              *)
PrimaryItem ==
    [output |-> Unwrap(output),
     stdout_suffix |-> args.stdout_suffix,
     stderr_suffix |-> args.stderr_suffix]

SelectName ==
    /\ pc = "select_name"
    /\ \/ /\ IF args.interactive_name
                THEN \E text \in {<<>>} \cup Names : name' = Some(text)
                ELSE name' = Some(UnwrapOrDefault(args.name))
          /\ cur' = Some(PrimaryItem)
          /\ idx' = 1
          /\ pc' = "write_stdout"
          /\ UNCHANGED <<handle, log, result>>
       \/ /\ args.interactive_name
          /\ Bail("couldn't select name")
          /\ UNCHANGED <<name, cur, idx>>
    /\ UNCHANGED <<meanwhile_file, args, children, proc, interrupted, killed,
                   waited, output, outdir_created, files, writes>>

----------------------------------------------------------------------------
(* main.rs:186-193  write_or_log *)

\* variant: the file is named by the suffix alone
PathWithoutName(nm, suffix) == suffix

\* format!("{name}{suffix}") joined to outdir
Path(nm, suffix) == nm \o suffix

\* variant: a file that exists is left as it is (create_new)
FsWriteKeepsExisting(fs, path, bytes, res) ==
    IF path \in DOMAIN fs THEN fs
    ELSE CASE res = "Ok"        -> (path :> bytes) @@ fs
           [] res = "ErrWrite"  -> (path :> <<>>) @@ fs
           [] OTHER             -> fs

\* variant: the file is opened for appending
FsWriteAppends(fs, path, bytes, res) ==
    CASE res = "Ok"        -> (path :> (IF path \in DOMAIN fs THEN fs[path] \o bytes
                                                                ELSE bytes)) @@ fs
      [] res = "ErrWrite"  -> (path :> (IF path \in DOMAIN fs THEN fs[path] ELSE <<>>)) @@ fs
      [] OTHER             -> fs

\* fs::write creates or truncates the file, then writes all the bytes:
\* "Ok" leaves the bytes, "ErrCreate" leaves the directory as it was,
\* "ErrWrite" leaves the file created or truncated.
FsWrite(fs, path, bytes, res) ==
    CASE res = "Ok"        -> (path :> bytes) @@ fs
      [] res = "ErrWrite"  -> (path :> <<>>) @@ fs
      [] OTHER             -> fs

\* variant: an absent suffix is taken as the empty suffix
WriteOrLogDefaultSuffix(maybe_suffix, stream, res) ==
    LET file == Path(Unwrap(name), UnwrapOrDefault(maybe_suffix))
        item == Unwrap(cur)
    IN /\ files' = FsWrite(files, file, item.output[stream], res)
       /\ writes' = Append(writes, [file |-> file, pid |-> item.output.pid,
                                    stream |-> stream, res |-> res])
       /\ log' = IF res = "Ok" THEN log
                  ELSE log \cup {Line("coudn't write output", item.output.pid)}

WriteOrLog(maybe_suffix, stream, res) ==
    IF IsSome(maybe_suffix)
    THEN LET file == Path(Unwrap(name), Unwrap(maybe_suffix))
             item == Unwrap(cur)
         IN /\ files' = FsWrite(files, file, item.output[stream], res)
            /\ writes' = Append(writes, [file |-> file, pid |-> item.output.pid,
                                         stream |-> stream, res |-> res])
            /\ log' = IF res = "Ok" THEN log
                       ELSE log \cup {Line("coudn't write output", item.output.pid)}
    ELSE /\ res = "Ok"
         /\ UNCHANGED <<files, writes, log>>

\* variant: the iterator hands out the child it handed out before
NextOutputRepeats(j) ==
    /\ idx' = IF j > 1 /\ j <= Len(children) THEN j - 1 ELSE j
    /\ cur' = None
    /\ IF j <= Len(children)
       THEN pc' = "kill" /\ UNCHANGED result
       ELSE pc' = "exit" /\ result' = "Ok"

\* the `outputs` iterator is asked for its next item: filter_map takes the
\* next child, and when there is none the loop is over and main returns Ok
NextOutput(j) ==
    /\ idx' = j
    /\ cur' = None
    /\ IF j <= Len(children)
       THEN pc' = "kill" /\ UNCHANGED result
       ELSE pc' = "exit" /\ result' = "Ok"

\* variant: a failed write is returned with `?`
WriteStdoutOrBail ==
    /\ pc = "write_stdout"
    /\ \E res \in {"Ok", "ErrCreate", "ErrWrite"} :
          /\ res # "Ok" => MayFail
          /\ WriteOrLog(Unwrap(cur).stdout_suffix, "stdout", res)
          /\ IF res = "Ok"
             THEN pc' = "write_stderr" /\ UNCHANGED <<result, handle>>
             ELSE pc' = "exit" /\ result' = "Err" /\ handle' = DropAll(handle)
    /\ UNCHANGED <<meanwhile_file, args, children, proc, interrupted,
                   killed, waited, output, idx, cur, outdir_created, name>>

(* main.rs:179 *)
WriteStdout ==
    /\ pc = "write_stdout"
    /\ \E res \in {"Ok", "ErrCreate", "ErrWrite"} :
          /\ res # "Ok" => MayFail
          /\ WriteOrLog(Unwrap(cur).stdout_suffix, "stdout", res)
    /\ pc' = "write_stderr"
    /\ UNCHANGED <<meanwhile_file, args, children, handle, proc, interrupted,
                   killed, waited, output, idx, cur, outdir_created, name,
                   result>>

(* main.rs:180, then the next iteration of the for loop *)
WriteStderr ==
    /\ pc = "write_stderr"
    /\ \E res \in {"Ok", "ErrCreate", "ErrWrite"} :
          /\ res # "Ok" => MayFail
          /\ WriteOrLog(Unwrap(cur).stderr_suffix, "stderr", res)
    /\ NextOutput(IF Unwrap(cur).output.pid = MainPid THEN 1 ELSE idx + 1)
    /\ UNCHANGED <<meanwhile_file, args, children, handle, proc, interrupted,
                   killed, waited, output, outdir_created, name>>

----------------------------------------------------------------------------
(* main.rs:141-162  the closure of filter_map, run when the write loop     *)
(* asks `outputs` for an item.                                             *)

\* what child.kill() can return: SIGKILL reaches a process that has not
\* been reaped; InvalidInput is the report that it had already exited
KillResults(i) ==
    IF proc[i] = "exited" THEN {"Ok", "InvalidInput", "Err"} ELSE {"Ok", "Err"}

\* variant: without the InvalidInput arm, "already exited" is an error
KillArmWithoutInvalidInput(i, res) ==
    IF res = "Ok"
    THEN /\ proc' = [proc EXCEPT ![i] = "exited"]
         /\ pc' = "wait"
         /\ UNCHANGED <<handle, log, idx, cur, result>>
    ELSE /\ log' = log \cup {Line("unable to kill child, output will not be collected", i)}
         /\ handle' = [handle EXCEPT ![i] = "dropped"]
         /\ NextOutput(idx + 1)
         /\ UNCHANGED proc

\* variant: a failed kill is logged and the child is waited on all the same
KillArmAlwaysWaits(i, res) ==
    /\ proc' = IF res = "Ok" THEN [proc EXCEPT ![i] = "exited"] ELSE proc
    /\ log' = IF res = "Err"
                THEN log \cup {Line("unable to kill child, output will not be collected", i)}
                ELSE log
    /\ pc' = "wait"
    /\ UNCHANGED <<handle, idx, cur, result>>

KillArm(i, res) ==
    CASE res = "Ok" ->
            /\ proc' = [proc EXCEPT ![i] = "exited"]
            /\ pc' = "wait"
            /\ UNCHANGED <<handle, log, idx, cur, result>>
      [] res = "InvalidInput" ->
            /\ pc' = "wait"
            /\ UNCHANGED <<proc, handle, log, idx, cur, result>>
      [] OTHER ->
            /\ log' = log \cup {Line("unable to kill child, output will not be collected", i)}
            /\ handle' = [handle EXCEPT ![i] = "dropped"]
            /\ NextOutput(idx + 1)
            /\ UNCHANGED proc

Kill ==
    /\ pc = "kill"
    /\ LET i == children[idx].pid IN
         \E res \in KillResults(i) :
            /\ res = "Err" => MayFail
            /\ killed' = [killed EXCEPT ![i] = res]
            /\ KillArm(i, res)
    /\ UNCHANGED <<meanwhile_file, args, children, interrupted, waited,
                   output, outdir_created, name, files, writes>>

(* main.rs:195-214  wait_or_log: wait_with_output() takes the child by     *)
(* value and blocks until the process has exited.                          *)
ChildItem(i) ==
    [output |-> Output(i, 0),
     stdout_suffix |-> children[idx].stdout_suffix,
     stderr_suffix |-> children[idx].stderr_suffix]

\* variant: a failed wait is returned with `?`
WaitOrBail(i, res) ==
    IF res = "Ok"
    THEN /\ handle' = [handle EXCEPT ![i] = "waited"]
         /\ proc' = [proc EXCEPT ![i] = "reaped"]
         /\ cur' = Some(ChildItem(i))
         /\ pc' = "write_stdout"
         /\ UNCHANGED <<log, idx, result>>
    ELSE /\ Bail("unable to wait on child, output will not be collected")
         /\ UNCHANGED <<proc, idx, cur>>

\* variant: a failed wait is logged and an item is yielded all the same
WaitOrLogYieldsAnyway(i, res) ==
    /\ handle' = [handle EXCEPT ![i] = IF res = "Ok" THEN "waited" ELSE "dropped"]
    /\ proc' = IF res = "Ok" THEN [proc EXCEPT ![i] = "reaped"] ELSE proc
    /\ log' = IF res = "Ok" THEN log
                ELSE log \cup {Line("unable to wait on child, output will not be collected", i)}
    /\ cur' = Some(ChildItem(i))
    /\ pc' = "write_stdout"
    /\ UNCHANGED <<idx, result>>

WaitOrLog(i, res) ==
    IF res = "Ok"
    THEN /\ handle' = [handle EXCEPT ![i] = "waited"]
         /\ proc' = [proc EXCEPT ![i] = "reaped"]
         /\ cur' = Some(ChildItem(i))
         /\ pc' = "write_stdout"
         /\ UNCHANGED <<log, idx, result>>
    ELSE /\ handle' = [handle EXCEPT ![i] = "dropped"]
         /\ log' = log \cup {Line("unable to wait on child, output will not be collected", i)}
         /\ NextOutput(idx + 1)
         /\ UNCHANGED proc

Wait ==
    /\ pc = "wait"
    /\ LET i == children[idx].pid IN
         /\ proc[i] = "exited"
         /\ handle[i] = "owned"
         /\ \E res \in {"Ok", "Err"} :
               /\ res = "Err" => MayFail
               /\ waited' = [waited EXCEPT ![i] = res]
               /\ WaitOrLog(i, res)
    /\ UNCHANGED <<meanwhile_file, args, children, interrupted, killed,
                   output, outdir_created, name, files, writes>>

----------------------------------------------------------------------------
(* The environment: a running background process exits on its own, at any  *)
(* time (it finished, it crashed, or it handled the interrupt).            *)
ProcExit ==
    /\ \E i \in Tasks :
          /\ proc[i] = "running"
          /\ proc' = [proc EXCEPT ![i] = "exited"]
    /\ UNCHANGED <<pc, meanwhile_file, args, children, handle, interrupted,
                   killed, waited, output, idx, cur, outdir_created, name,
                   files, writes, log, result>>

----------------------------------------------------------------------------
Next ==
    \/ ReadMeanwhileFile
    \/ Spawn
    \/ SleepAfterSpawn
    \/ RunMain
    \/ Interrupt
    \/ SleepAfterInterrupt
    \/ CreateDirAll
    \/ SelectName
    \/ WriteStdout
    \/ WriteStderr
    \/ Kill
    \/ Wait
    \/ ProcExit

Spec == Init /\ [][Next]_vars

\* The same behaviours under two more names, so that the properties of the
\* shutdown order and those of the written files are each checked in a run
\* of their own.
SpecShutdown == Init /\ [][Next]_vars
SpecOutput == Init /\ [][Next]_vars

----------------------------------------------------------------------------
(* write_or_log on its own: from an empty output directory, with a name and *)
(* an item drawn from the inputs it can be given, it is called up to        *)
(* MaxWrites times on a stream of the item, each call with any outcome.     *)

InitWrite ==
    /\ pc = "write_or_log"
    /\ meanwhile_file = <<>>
    /\ args \in {a \in Args : ~a.interactive_name}
    /\ children = <<>>
    /\ handle = [i \in Tasks |-> "none"]
    /\ proc = [i \in Tasks |-> "none"]
    /\ interrupted = [i \in Tasks |-> "none"]
    /\ killed = [i \in Tasks |-> "none"]
    /\ waited = [i \in Tasks |-> "none"]
    /\ output = Some(Output(MainPid, 0))
    /\ idx = 1
    /\ \E p \in {MainPid} \cup Tasks :
          cur = Some([output |-> Output(p, 0),
                      stdout_suffix |-> args.stdout_suffix,
                      stderr_suffix |-> args.stderr_suffix])
    /\ outdir_created = TRUE
    /\ name = Some(UnwrapOrDefault(args.name))
    /\ files = <<>>
    /\ writes = <<>>
    /\ log = {}
    /\ result = "running"

WriteOrLogAgain ==
    /\ pc = "write_or_log"
    /\ Len(writes) < MaxWrites
    /\ \E stream \in {"stdout", "stderr"}, res \in {"Ok", "ErrCreate", "ErrWrite"} :
          WriteOrLog(IF stream = "stdout" THEN Unwrap(cur).stdout_suffix
                                          ELSE Unwrap(cur).stderr_suffix,
                     stream, res)
    /\ UNCHANGED <<pc, meanwhile_file, args, children, handle, proc,
                   interrupted, killed, waited, output, idx, cur,
                   outdir_created, name, result>>

NextWrite == WriteOrLogAgain

SpecWrite == InitWrite /\ [][NextWrite]_vars

----------------------------------------------------------------------------
(* Vocabulary of the properties *)

Streams == {"stdout", "stderr"}
SuffixOf(rec, stream) ==
    IF stream = "stdout" THEN rec.stdout_suffix ELSE rec.stderr_suffix

Spawned == {i \in Tasks : handle[i] # "none"}
Logged(msg, pid) == Line(msg, pid) \in log
WriteAttempted(pid, stream) ==
    \E k \in 1..Len(writes) : writes[k].pid = pid /\ writes[k].stream = stream

KillErrMsg == "unable to kill child, output will not be collected"
WaitErrMsg == "unable to wait on child, output will not be collected"

\* the states of section 4.2
Collected(i) == waited[i] = "Ok"
CollectionFailed(i) == killed[i] = "Err" \/ waited[i] = "Err"
ReachedKilled(i) == killed[i] \in {"Ok", "InvalidInput"}

PrimaryExited == IsSome(output)
Exited == pc = "exit"

\* every stream of the task that has a suffix got its write attempt
TaskWritten(i) ==
    \A st \in Streams : IsSome(SuffixOf(children[i], st)) => WriteAttempted(i, st)
PrimaryWritten ==
    \A st \in Streams : IsSome(SuffixOf(args, st)) => WriteAttempted(MainPid, st)

\* the run came to its end with every background task but i treated as
\* the plan says: kill attempt, wait if killed, writes if collected
OthersCompleted(i) ==
    \A j \in 1..Len(children) : j # i =>
        /\ killed[j] # "none"
        /\ ReachedKilled(j) => waited[j] # "none"
        /\ Collected(j) => TaskWritten(j)

----------------------------------------------------------------------------
\* C1: when the run is over, every spawned background handle was either
\* waited on successfully (once) or dropped with an error line that names
\* it, whichever way the run ended.
C1_NoHandleLeaked ==
    Exited =>
        \A i \in Spawned :
            \/ handle[i] = "waited" /\ waited[i] = "Ok"
            \/ /\ handle[i] = "dropped"
               /\ Logged(KillErrMsg, i) \/ Logged(WaitErrMsg, i)

\* C2: kill-all, then collect-all, and only then the output directory, the
\* name and the writes: no task is waited on before every task had its
\* kill attempt, and nothing of the output phase happens before every task
\* is through its kill attempt and its wait.
OutputPhaseBegun == outdir_created \/ IsSome(name) \/ Len(writes) > 0
C2_PhasesInSequence ==
    /\ (\E i \in Tasks : waited[i] # "none") =>
            \A j \in 1..Len(children) : killed[j] # "none"
    /\ OutputPhaseBegun =>
            \A j \in 1..Len(children) :
                /\ killed[j] # "none"
                /\ ReachedKilled(j) => waited[j] # "none"

\* C3: the primary command is run only with every declared task spawned,
\* and a failed background spawn ends the run with an error, the primary
\* command never run and no file written.
SpawnErrMsg == "couldn't spawn background task"
C3_SpawnFailFast ==
    /\ (pc = "run_main" \/ PrimaryExited
            \/ Logged("couldn't execute main task", MainPid)) =>
            /\ Len(children) = Len(meanwhile_file)
            /\ \A i \in 1..Len(meanwhile_file) : i \in Spawned
    /\ Logged(SpawnErrMsg, MainPid) =>
            /\ Exited /\ result = "Err"
            /\ ~PrimaryExited
            /\ ~Logged("couldn't execute main task", MainPid)
            /\ writes = <<>> /\ DOMAIN files = {}
C3_Witness ==
    /\ Logged(SpawnErrMsg, MainPid)
    /\ Len(children) = 1
    /\ Len(meanwhile_file) = 2

\* C4: an interrupt is attempted only once the primary command has exited.
C4_InterruptAfterPrimary ==
    /\ pc = "interrupt" => PrimaryExited
    /\ \A i \in Tasks : interrupted[i] # "none" => PrimaryExited
C4_Witness ==
    \E i \in Tasks : interrupted[i] = "Ok" /\ PrimaryExited

\* C5: when the run is over after the primary command exited, every
\* spawned background task is Collected or CollectionFailed, and every
\* collected one has its streams written.
C5_AllTerminal ==
    (Exited /\ PrimaryExited) =>
        \A i \in 1..Len(children) :
            /\ Collected(i) \/ CollectionFailed(i)
            /\ Collected(i) => TaskWritten(i)

\* C6 as stated: the run ends in an error exactly when a background spawn
\* failed, the primary command could not be executed or the output
\* directory could not be created.
StatedFatal == {SpawnErrMsg, "couldn't execute main task", "couldn't create outdir"}
Fatal == StatedFatal \cup {"couldn't open meanwhile-file",
                           "couldn't deserialize meanwhile-file",
                           "couldn't select name"}
C8_AlreadyExitedIsSuccess ==
    \A i \in Tasks : killed[i] = "InvalidInput" =>
        /\ ~Logged(KillErrMsg, i)
        /\ \/ pc = "wait" /\ children[idx].pid = i /\ handle[i] = "owned"
           \/ waited[i] # "none"
        /\ (Collected(i) /\ Exited) => TaskWritten(i)
C8_Witness ==
    \E i \in Tasks :
        /\ killed[i] = "InvalidInput" /\ Collected(i) /\ Exited
        /\ WriteAttempted(i, "stdout")

\* C9: a task whose kill failed is never waited on and never written, and
\* the run goes on to its end: the other tasks are killed, collected and
\* written and the primary task's output is written.
C9_KillFailureIsolated ==
    \A i \in Tasks : killed[i] = "Err" =>
        /\ waited[i] = "none"
        /\ \A st \in Streams : ~WriteAttempted(i, st)
        /\ PrimaryWritten
        /\ Exited => (result = "Ok" /\ OthersCompleted(i))
C9_Witness ==
    /\ Exited
    /\ killed[1] = "Err"
    /\ Collected(2) /\ WriteAttempted(2, "stderr")
    /\ WriteAttempted(MainPid, "stderr")

\* C10: a task whose wait failed is CollectionFailed: nothing is written
\* for it, the run goes on to its end, the other tasks are killed,
\* collected and written and the primary task's output is written.
C10_WaitFailureIsolated ==
    \A i \in Tasks : waited[i] = "Err" =>
        /\ CollectionFailed(i)
        /\ handle[i] = "dropped" /\ Logged(WaitErrMsg, i)
        /\ \A st \in Streams : ~WriteAttempted(i, st)
        /\ PrimaryWritten
        /\ Exited => (result = "Ok" /\ OthersCompleted(i))
C10_Witness ==
    /\ Exited
    /\ waited[1] = "Err"
    /\ Collected(2) /\ WriteAttempted(2, "stderr")
    /\ WriteAttempted(MainPid, "stderr")

----------------------------------------------------------------------------
\* the record that configures the suffixes of a process
Config(pid) == IF pid = MainPid THEN args ELSE meanwhile_file[pid]

\* the processes whose output reaches the write loop
Writers == {MainPid} \cup {i \in 1..Len(children) : Collected(i)}

\* the paths the configured streams of the writers resolve to
Eligible == {x \in Writers \X Streams : IsSome(SuffixOf(Config(x[1]), x[2]))}
PathOf(x) == Unwrap(name) \o Unwrap(SuffixOf(Config(x[1]), x[2]))

\* C11: no write is ever attempted for a stream that has no suffix, and
\* every file of the output directory is at the path of a stream that has
\* one.  (`writes` only grows, so every write attempt is the latest one in
\* the state that follows it.)
LatestWrite == writes[Len(writes)]
C11_NoSuffixNoFile ==
    /\ Len(writes) > 0 =>
            LET suffix == SuffixOf(Config(LatestWrite.pid), LatestWrite.stream) IN
            /\ IsSome(suffix)
            /\ LatestWrite.file = Unwrap(name) \o Unwrap(suffix)
    /\ \A f \in DOMAIN files : \E k \in 1..Len(writes) : writes[k].file = f
C11_Witness ==
    /\ Exited /\ result = "Ok"
    /\ args.stdout_suffix = None /\ WriteAttempted(MainPid, "stderr")
    /\ \E i \in 1..Len(children) :
          /\ Collected(i) /\ children[i].stdout_suffix = None
          /\ WriteAttempted(i, "stderr")

\* C12: a failed write ends nothing: the run still returns Ok, and every
\* stream with a suffix, of the primary task and of every collected task,
\* has had its own write attempt when the run is over.
WriteFailed == \E k \in 1..Len(writes) : writes[k].res # "Ok"
C12_WriteFailureIsolated ==
    /\ (Exited /\ WriteFailed) => result = "Ok"
    /\ result = "Ok" =>
            /\ PrimaryWritten
            /\ \A i \in 1..Len(children) : Collected(i) => TaskWritten(i)
C12_Witness ==
    /\ Exited
    /\ Len(writes) >= 3
    /\ writes[1].res # "Ok"
    /\ writes[Len(writes)].res = "Ok" /\ writes[Len(writes)].pid # MainPid

\* C13: a write is attempted only with the output directory created and
\* the name resolved; a failed create_dir_all ends the run with an error,
\* after the primary command has exited, and no file is written.
OutdirErrMsg == "couldn't create outdir"
C13_WritesAfterOutdirAndName ==
    /\ (Len(writes) > 0 \/ DOMAIN files # {} \/ pc \in {"write_stdout", "write_stderr"}) =>
            outdir_created /\ IsSome(name)
    /\ Logged(OutdirErrMsg, MainPid) =>
            /\ Exited /\ result = "Err"
            /\ PrimaryExited
            /\ ~outdir_created
            /\ writes = <<>> /\ DOMAIN files = {}
C13_Witness ==
    /\ Logged(OutdirErrMsg, MainPid)
    /\ PrimaryExited
    /\ IsSome(args.stdout_suffix)

----------------------------------------------------------------------------
AllWritesOk == Exited /\ result = "Ok" /\ ~WriteFailed

\* C14 as stated: when every write succeeded, the files are exactly the
\* paths prefix+suffix of the streams with a suffix of the primary task and
\* of the collected tasks, and the file of each such stream holds that
\* stream's captured bytes.
C14_OneFilePerStreamAsStated ==
    AllWritesOk =>
        LET el == Eligible IN
        /\ DOMAIN files = {PathOf(x) : x \in el}
        /\ \A x \in el : files[PathOf(x)] = Captured(x[1], x[2])

\* C14 amended: when every write succeeded, the files are exactly the paths
\* prefix+suffix of the streams with a suffix of the primary task and of
\* the collected tasks; streams with the same suffix share one file, which
\* holds the captured bytes of one of them, and a file that only one stream
\* resolves to holds that stream's captured bytes.
Sharing(x) == {y \in Eligible : PathOf(y) = PathOf(x)}
C14_FilesOfStreams ==
    AllWritesOk =>
        LET el == Eligible IN
        /\ DOMAIN files = {PathOf(x) : x \in el}
        /\ \A x \in el :
              /\ \E y \in el : /\ PathOf(y) = PathOf(x)
                                /\ files[PathOf(x)] = Captured(y[1], y[2])
              /\ (\A y \in el : PathOf(y) = PathOf(x) => y = x) =>
                    files[PathOf(x)] = Captured(x[1], x[2])
C14_Witness ==
    /\ AllWritesOk
    /\ Cardinality(DOMAIN files) = 2
    /\ Unwrap(name) # <<>>
    /\ \E x \in Eligible : x[1] # MainPid /\ Sharing(x) = {x}

----------------------------------------------------------------------------
AfterInterruptLoop ==
    \/ pc \in {"create_dir_all", "select_name", "write_stdout", "write_stderr",
               "kill", "wait"}
    \/ Exited /\ PrimaryExited
Attempted == {i \in Tasks : interrupted[i] # "none"}

\* C15: with every declared task spawned, the interrupt loop attempts the
\* tasks one by one, each once, and when it is over the number of tasks
\* with an interrupt attempt is the number of declared tasks.
C15_AllEnterInterruptPhase ==
    /\ pc = "interrupt" =>
            /\ Len(children) = Len(meanwhile_file)
            /\ Attempted = 1..(idx - 1)
    /\ AfterInterruptLoop =>
            /\ Attempted = 1..Len(meanwhile_file)
            /\ Cardinality(Attempted) = Len(meanwhile_file)
C15_Witness ==
    /\ pc = "create_dir_all"
    /\ Len(meanwhile_file) = 2
    /\ interrupted[1] = "Ok" /\ interrupted[2] = "Ok"

\* C16: a kill is attempted only after the interrupt loop has attempted
\* every task and the grace sleep is over, and a task is waited on only
\* after its own kill attempt returned Ok or "already exited".
C16_KillAfterGraceWaitAfterKill ==
    /\ (pc \in {"kill", "wait"} \/ \E i \in Tasks : killed[i] # "none") =>
            /\ \A j \in 1..Len(children) : interrupted[j] # "none"
            /\ pc \in {"kill", "wait", "write_stdout", "write_stderr", "exit"}
    /\ pc = "wait" => ReachedKilled(children[idx].pid)
    /\ \A i \in Tasks : waited[i] # "none" => ReachedKilled(i)
C16_Witness ==
    \E i \in Tasks :
        /\ interrupted[i] # "none"
        /\ killed[i] = "Ok"
        /\ waited[i] = "Ok"

----------------------------------------------------------------------------
\* the place of a stream in the collection order: the primary task first,
\* then the background tasks as declared, stdout before stderr
Rank(pid, stream) == 2 * pid + (IF stream = "stdout" THEN 0 ELSE 1)

\* the write attempt k is the last one at its path
LastAtItsPath(k) == \A l \in (k + 1)..Len(writes) : writes[l].file # writes[k].file

\* C17: the write attempts come in collection order (primary task, then
\* the background tasks as declared, stdout before stderr: every attempt
\* ranks above the one before it), and when the run is over a path that
\* several streams resolve to holds the bytes of the last of them that was
\* written.
C17_LaterWriteWins ==
    /\ Len(writes) > 1 =>
            Rank(writes[Len(writes) - 1].pid, writes[Len(writes) - 1].stream)
                < Rank(LatestWrite.pid, LatestWrite.stream)
    /\ Exited =>
            \A k \in 1..Len(writes) :
                (writes[k].res = "Ok" /\ LastAtItsPath(k)) =>
                    /\ writes[k].file \in DOMAIN files
                    /\ files[writes[k].file] = Captured(writes[k].pid, writes[k].stream)
    /\ AllWritesOk =>
            LET el == Eligible IN
            \A x \in el :
                \E y \in el :
                    /\ PathOf(y) = PathOf(x)
                    /\ \A z \in el : PathOf(z) = PathOf(x) => Rank(z[1], z[2]) <= Rank(y[1], y[2])
                    /\ files[PathOf(x)] = Captured(y[1], y[2])
C17_Witness ==
    /\ AllWritesOk
    /\ \E k, l \in 1..Len(writes) :
          /\ k < l
          /\ writes[k].file = writes[l].file
          /\ writes[k].pid # writes[l].pid
          /\ files[writes[k].file] = Captured(writes[l].pid, writes[l].stream)

\* C19: a primary command that exits with a non-zero status ends nothing:
\* the run goes through interrupt, kill, wait and the writes as with a zero
\* status and returns Ok, unless the output directory or the name fails;
\* only a primary command that could not be executed ends the run there.
MainErrMsg == "couldn't execute main task"
PrimaryStatus == Unwrap(output).status
C19_NonZeroStatusNotFatal ==
    /\ (PrimaryExited /\ PrimaryStatus # 0) =>
            /\ ~Logged(MainErrMsg, MainPid)
            /\ Exited =>
                  /\ \A i \in 1..Len(children) : interrupted[i] # "none"
                  /\ result = "Err" <=>
                        \/ Logged(OutdirErrMsg, MainPid)
                        \/ Logged("couldn't select name", MainPid)
                  /\ result = "Ok" => (PrimaryWritten /\ OthersCompleted(0))
    /\ Logged(MainErrMsg, MainPid) =>
            /\ Exited /\ result = "Err" /\ ~PrimaryExited
            /\ \A i \in Tasks : interrupted[i] = "none" /\ killed[i] = "none"
C19_Witness ==
    /\ Exited /\ result = "Ok"
    /\ PrimaryStatus = 1
    /\ WriteAttempted(MainPid, "stderr")
    /\ \E i \in Tasks : interrupted[i] = "Ok" /\ Collected(i) /\ WriteAttempted(i, "stderr")

\* C20: a signal is only ever sent to a child that has not been waited on:
\* the target of the pending interrupt or kill is an owned handle of an
\* unreaped process, and a task that was waited on had its interrupt and
\* its kill attempt before.
SignalTarget ==
    IF pc = "kill" \/ (pc = "interrupt" /\ idx <= Len(children))
    THEN {children[idx].pid} ELSE {}
C20_NoSignalAfterWait ==
    /\ \A i \in SignalTarget :
            /\ waited[i] = "none"
            /\ handle[i] = "owned"
            /\ proc[i] \in {"running", "exited"}
    /\ pc = "interrupt" => \A i \in Tasks : waited[i] = "none"
    /\ \A i \in Tasks : waited[i] # "none" =>
            interrupted[i] # "none" /\ killed[i] # "none"
C20_Witness ==
    /\ pc = "kill"
    /\ idx = 2
    /\ waited[1] = "Ok" /\ proc[1] = "reaped"

----------------------------------------------------------------------------
\* the directory that a sequence of write attempts leaves, from empty
RECURSIVE Replay(_)
Replay(ws) ==
    IF Len(ws) = 0 THEN <<>>
    ELSE LET w == ws[Len(ws)] IN
         FsWrite(Replay(SubSeq(ws, 1, Len(ws) - 1)), w.file,
                 Captured(w.pid, w.stream), w.res)

\* C18: when the last two writes are the same write (same path, same
\* bytes) and succeeded, the directory is what it was after the first of
\* the two, and the file holds exactly the bytes written.
RepeatedWrite ==
    /\ Len(writes) >= 2
    /\ writes[Len(writes)] = writes[Len(writes) - 1]
    /\ writes[Len(writes)].res = "Ok"
C18_WriteIdempotent ==
    RepeatedWrite =>
        LET w == writes[Len(writes)] IN
            /\ files = Replay(SubSeq(writes, 1, Len(writes) - 1))
            /\ files[w.file] = Captured(w.pid, w.stream)
C18_Witness ==
    /\ RepeatedWrite
    /\ Len(writes) = 2
    /\ files[writes[2].file] = Captured(writes[2].pid, writes[2].stream)

====
